---- MODULE Spec2Model ----
(***************************************************************************)
(* Model of common/src/utils/hitbox.ts: the four hitbox classes            *)
(* (CircleHitbox, RectangleHitbox, HitboxGroup, PolygonHitbox) over a heap *)
(* of objects and arrays, so that object identity and aliasing are         *)
(* visible.  A client holds two hitboxes, objA and objC, and calls one     *)
(* method per step.  Numbers are integers; a call whose floating           *)
(* point result is not an integer is outside the modelled inputs.          *)
(***************************************************************************)
EXTENDS Integers, Sequences, FiniteSets, TLC

VARIABLES
    mem,   \* the heap: objects, arrays, and the next identifiers to allocate
    objA,  \* the client's first hitbox: an object identifier, never reassigned
    objC,  \* the client's second hitbox: assigned by objC = objA.clone() and
           \* objC = objA.transform(...)
    call,  \* the last call: its name, receiver and arguments
    ret,   \* what the last call returned or threw
    pre,   \* mem and objC before the last call
    nops,  \* the number of calls made
    origin, \* how the client got the hitbox in objC: "new", "clone", "transform"
    loop   \* the do-while loop of PolygonHitbox.randomPoint, while a call is
           \* in it, and then its receiver

vars == <<mem, objA, objC, call, ret, pre, nops, origin, loop>>

\* ------------------------------------------------------------------ bounds
\* Number of method calls in one run.
MaxOps == 2

\* Objects a run can allocate: the two initial shapes (at most 3 objects
\* each) and at most 3 objects per call.
MaxObj == 6 + 3 * MaxOps

\* Arrays (polygon point lists) a run can allocate.
MaxArr == 2 + MaxOps

\* Number.MAX_VALUE, larger than every coordinate of the model.
MAX_VALUE == 1000000

\* ----------------------------------------------------------- vector.ts
v(x, y) == [x |-> x, y |-> y]

vAdd(p, q) == v(p.x + q.x, p.y + q.y)

vSub(p, q) == v(p.x - q.x, p.y - q.y)

vMul(p, n) == v(p.x * n, p.y * n)

vClone(p) == v(p.x, p.y)

Min2(m, n) == IF m < n THEN m ELSE n

Max2(m, n) == IF m > n THEN m ELSE n

Abs(n) == IF n < 0 THEN -n ELSE n

clamp(n, lo, hi) == IF n < lo THEN lo ELSE IF n > hi THEN hi ELSE n

distanceSquared(p, q) == (p.x - q.x) * (p.x - q.x) + (p.y - q.y) * (p.y - q.y)

IsSquare(n) == n >= 0 /\ \E k \in 0..n : k * k = n

Sqrt(n) == CHOOSE k \in 0..n : k * k = n

\* ------------------------------------------------------------- math.ts
\* Quarter-turn rotation of q about the origin, then translation by p.
Rotate(q, orientation) ==
    CASE orientation = 0 -> q
      [] orientation = 1 -> v(q.y, -q.x)
      [] orientation = 2 -> v(-q.x, -q.y)
      [] orientation = 3 -> v(-q.y, q.x)

addAdjust(position1, position2, orientation) ==
    vAdd(position1, Rotate(position2, orientation))

\* The image of the rectangle [min, max] under rotate, scale, translate:
\* the rectangle spanned by the images of its two corners.
transformRectangle(pos, min, max, scale, orientation) ==
    LET p == addAdjust(pos, vMul(min, scale), orientation)
        q == addAdjust(pos, vMul(max, scale), orientation)
    IN  [min |-> v(Min2(p.x, q.x), Min2(p.y, q.y)),
         max |-> v(Max2(p.x, q.x), Max2(p.y, q.y))]

\* ------------------------------------------------------------ the heap
Free == [type |-> "Free"]

Undefined == [type |-> "Undefined"]

ObjIds == 1..MaxObj

ArrIds == 1..MaxArr

\* Object 0 stands for the JavaScript value undefined.
HeapAt(m, id) == IF id = 0 THEN Undefined ELSE m.heap[id]

\* The value of the object id: its fields, with a group's members and a
\* polygon's points read through their references.
Deref(m, id) ==
    LET o == HeapAt(m, id)
    IN  CASE o.type = "Group" ->
               [type |-> "Group", position |-> o.position,
                hitboxes |-> [i \in DOMAIN o.hitboxes |-> HeapAt(m, o.hitboxes[i])]]
          [] o.type = "Polygon" ->
               [type |-> "Polygon", points |-> m.arrays[o.points]]
          [] OTHER -> o

\* new CircleHitbox(radius, position)
NewCircle(m, radius, position) ==
    [mem |-> [m EXCEPT !.heap[m.nextId] =
                          [type |-> "Circle", position |-> position, radius |-> radius],
                       !.nextId = @ + 1],
     id |-> m.nextId]

\* new RectangleHitbox(min, max)
NewRect(m, min, max) ==
    [mem |-> [m EXCEPT !.heap[m.nextId] = [type |-> "Rect", min |-> min, max |-> max],
                       !.nextId = @ + 1],
     id |-> m.nextId]

\* new HitboxGroup(...hitboxes): the members are existing objects.
NewGroup(m, ids) ==
    [mem |-> [m EXCEPT !.heap[m.nextId] =
                          [type |-> "Group", position |-> v(0, 0), hitboxes |-> ids],
                       !.nextId = @ + 1],
     id |-> m.nextId]

\* A fresh array holding pts (the result of Array.prototype.map).
NewArray(m, pts) ==
    [mem |-> [m EXCEPT !.arrays[m.nextArr] = pts, !.nextArr = @ + 1],
     arr |-> m.nextArr]

\* new PolygonHitbox(points): the object keeps a reference to the array.
NewPolygon(m, arr) ==
    [mem |-> [m EXCEPT !.heap[m.nextId] = [type |-> "Polygon", points |-> arr],
                       !.nextId = @ + 1],
     id |-> m.nextId]

\* Allocates a circle or rectangle given by value (a literal of the client).
NewPrim(m, val) ==
    IF val.type = "Circle" THEN NewCircle(m, val.radius, val.position)
    ELSE NewRect(m, val.min, val.max)

RECURSIVE NewPrims(_, _)
\* Allocates the values of a sequence in order; .ids are their objects.
NewPrims(m, vals) ==
    IF vals = <<>> THEN [mem |-> m, ids |-> <<>>]
    ELSE LET first == NewPrim(m, Head(vals))
             rest == NewPrims(first.mem, Tail(vals))
         IN  [mem |-> rest.mem, ids |-> <<first.id>> \o rest.ids]

\* Allocates any shape given by value.
NewShape(m, val) ==
    CASE val.type = "Group" ->
           LET ms == NewPrims(m, val.hitboxes) IN NewGroup(ms.mem, ms.ids)
      [] val.type = "Polygon" ->
           LET ar == NewArray(m, val.points) IN NewPolygon(ar.mem, ar.arr)
      [] OTHER -> NewPrim(m, val)

EmptyMem ==
    [heap |-> [i \in ObjIds |-> Free], arrays |-> [i \in ArrIds |-> <<>>],
     nextId |-> 1, nextArr |-> 1]

\* Objects reachable from the object id.
Reach(m, id) ==
    IF id = 0 THEN {}
    ELSE IF m.heap[id].type = "Group"
         THEN {id} \cup {m.heap[id].hitboxes[i] : i \in DOMAIN m.heap[id].hitboxes}
         ELSE {id}

\* Garbage collection: what the roots do not reach is freed.  Identifiers
\* are never reused.
Collect(m, roots) ==
    LET live == UNION {Reach(m, r) : r \in roots} \ {0}
        liveArr == {m.heap[i].points : i \in {j \in live : m.heap[j].type = "Polygon"}}
    IN  [m EXCEPT !.heap = [i \in ObjIds |-> IF i \in live THEN m.heap[i] ELSE Free],
                  !.arrays = [i \in ArrIds |-> IF i \in liveArr THEN m.arrays[i] ELSE <<>>]]

\* ------------------------------------------- math.ts: pair geometry
\* A result of a numeric routine: .exact is FALSE when the floating point
\* result is not an integer (or integer vector), and then the call is not
\* among the modelled inputs.
Inexact == [exact |-> FALSE]

\* sqrt(dSqr) < r, for any sign of r.
DistLess(dSqr, r) == r > 0 /\ dSqr < r * r

\* Circle-circle overlap: centre distance < sum of radii.
circleCollision(pos1, r1, pos2, r2) ==
    DistLess(distanceSquared(pos1, pos2), r1 + r2)

\* The point of the rectangle closest to pos.
ClosestPoint(min, max, pos) == v(clamp(pos.x, min.x, max.x), clamp(pos.y, min.y, max.y))

\* Circle-rectangle overlap: distance from the closest point < radius.
rectangleCollision(min, max, pos, rad) ==
    DistLess(distanceSquared(pos, ClosestPoint(min, max, pos)), rad)

\* Rectangle-rectangle overlap: the intervals overlap on both axes.
rectRectCollision(min1, max1, min2, max2) ==
    min2.x < max1.x /\ min2.y < max1.y /\ min1.x < max2.x /\ min1.y < max2.y

\* The unit vector of d, d being parallel to an axis and not zero.
Unit(d) == v(IF d.x > 0 THEN 1 ELSE IF d.x < 0 THEN -1 ELSE 0,
             IF d.y > 0 THEN 1 ELSE IF d.y < 0 THEN -1 ELSE 0)

AxisParallel(d) == d.x = 0 \/ d.y = 0

\* Circle 0 against circle 1: null (.hit = FALSE) when they do not overlap,
\* else .dir, the unit vector from centre 0 toward centre 1 ((1, 0) when the
\* centres coincide), and .pen = sum of radii - centre distance.  A caller
\* moves circle 0 by -dir * pen.
circleCircleIntersection(pos0, rad0, pos1, rad1) ==
    LET toP1 == vSub(pos1, pos0)
        distSqr == distanceSquared(pos0, pos1)
        r == rad0 + rad1
    IN  IF ~DistLess(distSqr, r) THEN [exact |-> TRUE, hit |-> FALSE]
        ELSE IF ~AxisParallel(toP1) THEN Inexact
        ELSE [exact |-> TRUE, hit |-> TRUE,
              dir |-> IF distSqr > 0 THEN Unit(toP1) ELSE v(1, 0),
              pen |-> r - Sqrt(distSqr)]

\* Rectangle against circle: null when the closest point of the rectangle
\* is not nearer to the centre than the radius, else .dir, the unit vector
\* from the centre toward the closest point ((1, 0) when the centre is in
\* the rectangle), and .pen = radius - distance.  A caller moves the circle
\* by -dir * pen, or the rectangle by +dir * pen.
rectCircleIntersection(min, max, pos, radius) ==
    LET cpt == ClosestPoint(min, max, pos)
        dir == vSub(cpt, pos)
        dstSqr == distanceSquared(cpt, pos)
    IN  IF ~DistLess(dstSqr, radius) THEN [exact |-> TRUE, hit |-> FALSE]
        ELSE IF ~AxisParallel(dir) THEN Inexact
        ELSE [exact |-> TRUE, hit |-> TRUE,
              dir |-> IF dstSqr > 0 THEN Unit(dir) ELSE v(1, 0),
              pen |-> radius - Sqrt(dstSqr)]

\* Rectangle 0 against rectangle 1: null when they do not overlap, else the
\* push-out of rectangle 0 along the axis of smaller overlap (x on a tie),
\* away from the centre of rectangle 1.  A caller moves rectangle 0 by
\* +dir * pen.
rectRectIntersection(min0, max0, min1, max1) ==
    IF ~rectRectCollision(min0, max0, min1, max1) THEN [exact |-> TRUE, hit |-> FALSE]
    ELSE LET left == max0.x - min1.x     \* push toward -x
             right == max1.x - min0.x    \* push toward +x
             down == max0.y - min1.y
             up == max1.y - min0.y
             xPen == Min2(left, right)
             yPen == Min2(down, up)
         IN  IF xPen <= yPen
             THEN [exact |-> TRUE, hit |-> TRUE,
                   dir |-> IF left <= right THEN v(-1, 0) ELSE v(1, 0), pen |-> xPen]
             ELSE [exact |-> TRUE, hit |-> TRUE,
                   dir |-> IF down <= up THEN v(0, -1) ELSE v(0, 1), pen |-> yPen]

\* CollisionRecord of two circles: distance between the boundaries.
distanceToCircle(pos1, r1, pos2, r2) ==
    LET dSqr == distanceSquared(pos1, pos2)
    IN  IF ~IsSquare(dSqr) THEN Inexact
        ELSE [exact |-> TRUE, distance |-> Sqrt(dSqr) - (r1 + r2),
              collided |-> circleCollision(pos1, r1, pos2, r2)]

\* CollisionRecord of a rectangle and a circle.
distanceToRectangle(min, max, circlePos, circleRad) ==
    LET dSqr == distanceSquared(circlePos, ClosestPoint(min, max, circlePos))
    IN  IF ~IsSquare(dSqr) THEN Inexact
        ELSE [exact |-> TRUE, distance |-> Sqrt(dSqr) - circleRad,
              collided |-> rectangleCollision(min, max, circlePos, circleRad)]

\* CollisionRecord of two rectangles.
rectangleDistanceToRectangle(min1, max1, min2, max2) ==
    LET dx == Max2(0, Max2(min1.x - max2.x, min2.x - max1.x))
        dy == Max2(0, Max2(min1.y - max2.y, min2.y - max1.y))
        dSqr == dx * dx + dy * dy
    IN  IF ~IsSquare(dSqr) THEN Inexact
        ELSE [exact |-> TRUE, distance |-> Sqrt(dSqr),
              collided |-> rectRectCollision(min1, max1, min2, max2)]

Cross(o, p, q) == (p.x - o.x) * (q.y - o.y) - (p.y - o.y) * (q.x - o.x)

Sign(n) == IF n > 0 THEN 1 ELSE IF n < 0 THEN -1 ELSE 0

InBox(p, q, r) ==
    /\ Min2(p.x, q.x) <= r.x /\ r.x <= Max2(p.x, q.x)
    /\ Min2(p.y, q.y) <= r.y /\ r.y <= Max2(p.y, q.y)

\* Whether segment p1-p2 meets segment p3-p4.
SegmentsIntersect(p1, p2, p3, p4) ==
    LET d1 == Sign(Cross(p3, p4, p1))
        d2 == Sign(Cross(p3, p4, p2))
        d3 == Sign(Cross(p1, p2, p3))
        d4 == Sign(Cross(p1, p2, p4))
    IN  \/ d1 * d2 < 0 /\ d3 * d4 < 0
        \/ d1 = 0 /\ InBox(p3, p4, p1)
        \/ d2 = 0 /\ InBox(p3, p4, p2)
        \/ d3 = 0 /\ InBox(p1, p2, p3)
        \/ d4 = 0 /\ InBox(p1, p2, p4)

\* Segment s0-s1 against each of the four sides of the rectangle.
lineIntersectsRect2(s0, s1, min, max) ==
    \/ SegmentsIntersect(s0, s1, min, v(max.x, min.y))
    \/ SegmentsIntersect(s0, s1, v(max.x, min.y), max)
    \/ SegmentsIntersect(s0, s1, max, v(min.x, max.y))
    \/ SegmentsIntersect(s0, s1, v(min.x, max.y), min)

\* The candidate nearest to a, or null: the choice among equally near
\* candidates is the first in the order of the sequence.
RECURSIVE Nearest(_, _)
Nearest(cands, a) ==
    IF cands = <<>> THEN [hit |-> FALSE]
    ELSE LET rest == Nearest(Tail(cands), a)
         IN  IF rest.hit /\ distanceSquared(rest.point, a) < distanceSquared(Head(cands).point, a)
             THEN rest
             ELSE [hit |-> TRUE, point |-> Head(cands).point, normal |-> Head(cands).normal]

\* The candidates that lie on the segment a-b.
OnSegment(cands, a, b) == SelectSeq(cands, LAMBDA k : InBox(a, b, k.point))

\* Segment a-b (parallel to an axis) against a rectangle: the boundary
\* crossing nearest to a with its outward normal, or null.
lineIntersectsRect(a, b, min, max) ==
    IF a = b \/ ~AxisParallel(vSub(b, a)) THEN Inexact
    ELSE LET cands ==
                 IF a.y = b.y
                 THEN IF min.y <= a.y /\ a.y <= max.y
                      THEN <<[point |-> v(min.x, a.y), normal |-> v(-1, 0)],
                             [point |-> v(max.x, a.y), normal |-> v(1, 0)]>>
                      ELSE <<>>
                 ELSE IF min.x <= a.x /\ a.x <= max.x
                      THEN <<[point |-> v(a.x, min.y), normal |-> v(0, -1)],
                             [point |-> v(a.x, max.y), normal |-> v(0, 1)]>>
                      ELSE <<>>
         IN  [exact |-> TRUE] @@ Nearest(OnSegment(cands, a, b), a)

\* Segment a-b (parallel to an axis) against a circle: the boundary crossing
\* nearest to a with its outward normal, or null.
lineIntersectsCircle(a, b, pos, rad) ==
    IF a = b \/ ~AxisParallel(vSub(b, a)) THEN Inexact
    ELSE LET off == IF a.y = b.y THEN a.y - pos.y ELSE a.x - pos.x
             hSqr == rad * rad - off * off
         IN  IF hSqr < 0 \/ rad <= 0 THEN [exact |-> TRUE, hit |-> FALSE]
             ELSE IF off # 0 /\ hSqr # 0 THEN Inexact
             ELSE LET h == Sqrt(hSqr)
                      cands ==
                          IF a.y = b.y
                          THEN <<[point |-> v(pos.x - h, a.y), normal |-> Unit(v(-h, off))],
                                 [point |-> v(pos.x + h, a.y), normal |-> Unit(v(h, off))]>>
                          ELSE <<[point |-> v(a.x, pos.y - h), normal |-> Unit(v(off, -h))],
                                 [point |-> v(a.x, pos.y + h), normal |-> Unit(v(off, h))]>>
                  IN  [exact |-> TRUE] @@ Nearest(OnSegment(cands, a, b), a)

\* ------------------------------------------------- results of a call
Void == [kind |-> "void"]

Bool(b) == [kind |-> "bool", value |-> b]

Vec(p) == [kind |-> "vector", value |-> p]

Obj(id) == [kind |-> "object", id |-> id]

Json(data) == [kind |-> "json", value |-> data]

\* The call evaluated to undefined.
Undef == [kind |-> "undefined"]

\* The floating point result is not an integer: not a modelled input.
NotModelled == [kind |-> "inexact"]

Rec(r) ==
    IF r.exact THEN [kind |-> "record", distance |-> r.distance, collided |-> r.collided]
    ELSE NotModelled

Isect(r) ==
    IF ~r.exact THEN NotModelled
    ELSE IF r.hit THEN [kind |-> "intersection", hit |-> TRUE, point |-> r.point, normal |-> r.normal]
    ELSE [kind |-> "intersection", hit |-> FALSE]

\* TypeError: a property of undefined was read.
TypeError == [kind |-> "throw", error |-> "TypeError"]

\* BaseHitbox.throwUnknownSubclassError: the message names both types.
throwUnknownSubclassError(this, that) ==
    [kind |-> "throw", error |-> "UnknownSubclass",
     thisType |-> this.type, thatType |-> that.type]

\* ------------------------------------------------------- isPointInside
CircleHitbox_isPointInside(this, point) ==
    DistLess(distanceSquared(point, this.position), this.radius)

\* An isPointInside of a rectangle that counts the edges in.
RectangleHitbox_isPointInside_closed(this, point) ==
    point.x >= this.min.x /\ point.y >= this.min.y /\ point.x <= this.max.x /\ point.y <= this.max.y

RectangleHitbox_isPointInside(this, point) ==
    point.x > this.min.x /\ point.y > this.min.y /\ point.x < this.max.x /\ point.y < this.max.y

\* Whether the ray from (x, y) toward +x crosses the edge from pj to pi.
EdgeCrossed(pi, pj, x, y) ==
    /\ (pi.y > y) # (pj.y > y)
    /\ IF pj.y - pi.y > 0
       THEN (x - pi.x) * (pj.y - pi.y) < (pj.x - pi.x) * (y - pi.y)
       ELSE (x - pi.x) * (pj.y - pi.y) > (pj.x - pi.x) * (y - pi.y)

PolygonHitbox_isPointInside(this, point) ==
    LET count == Len(this.points)
        prev(i) == IF i = 1 THEN count ELSE i - 1
        crossed == {i \in 1..count :
                        EdgeCrossed(this.points[i], this.points[prev(i)], point.x, point.y)}
    IN  Cardinality(crossed) % 2 = 1

PrimIsPointInside(hitbox, point) ==
    IF hitbox.type = "Circle" THEN CircleHitbox_isPointInside(hitbox, point)
    ELSE RectangleHitbox_isPointInside(hitbox, point)

HitboxGroup_isPointInside(this, point) ==
    \E i \in DOMAIN this.hitboxes : PrimIsPointInside(this.hitboxes[i], point)

isPointInside(this, point) ==
    CASE this.type = "Circle" -> CircleHitbox_isPointInside(this, point)
      [] this.type = "Rect" -> RectangleHitbox_isPointInside(this, point)
      [] this.type = "Group" -> HitboxGroup_isPointInside(this, point)
      [] this.type = "Polygon" -> PolygonHitbox_isPointInside(this, point)

\* ---------------------------------------------- toRectangle (as values)
RectVal(min, max) == [type |-> "Rect", min |-> min, max |-> max]

CircleHitbox_toRectangle(this) ==
    RectVal(v(this.position.x - this.radius, this.position.y - this.radius),
            v(this.position.x + this.radius, this.position.y + this.radius))

PrimToRectangle(hitbox) ==
    IF hitbox.type = "Circle" THEN CircleHitbox_toRectangle(hitbox) ELSE hitbox

RECURSIVE GroupBounds(_, _, _)
\* The loop of HitboxGroup.toRectangle over the remaining members.
GroupBounds(hitboxes, min, max) ==
    IF hitboxes = <<>> THEN RectVal(min, max)
    ELSE LET toRect == PrimToRectangle(Head(hitboxes))
         IN  GroupBounds(Tail(hitboxes),
                         v(Min2(min.x, toRect.min.x), Min2(min.y, toRect.min.y)),
                         v(Max2(max.x, toRect.max.x), Max2(max.y, toRect.max.y)))

HitboxGroup_toRectangle(this) ==
    GroupBounds(this.hitboxes, v(MAX_VALUE, MAX_VALUE), v(0, 0))

RECURSIVE PointBounds(_, _, _)
\* The loop of PolygonHitbox.toRectangle over the remaining points.
PointBounds(points, min, max) ==
    IF points = <<>> THEN RectVal(min, max)
    ELSE LET point == Head(points)
         IN  PointBounds(Tail(points),
                         v(Min2(min.x, point.x), Min2(min.y, point.y)),
                         v(Max2(max.x, point.x), Max2(max.y, point.y)))

PolygonHitbox_toRectangle(this) ==
    PointBounds(this.points, v(MAX_VALUE, MAX_VALUE), v(0, 0))

\* The fields of the rectangle that this.toRectangle() returns.
toRectangleVal(this) ==
    CASE this.type = "Circle" -> CircleHitbox_toRectangle(this)
      [] this.type = "Rect" -> this
      [] this.type = "Group" -> HitboxGroup_toRectangle(this)
      [] this.type = "Polygon" -> PolygonHitbox_toRectangle(this)

\* ------------------------------------------------------------ getCenter
CircleHitbox_getCenter(this) == Vec(this.position)

RectangleHitbox_getCenter(this) ==
    IF (this.max.x - this.min.x) % 2 # 0 \/ (this.max.y - this.min.y) % 2 # 0
    THEN NotModelled
    ELSE Vec(v(this.min.x + ((this.max.x - this.min.x) \div 2),
               this.min.y + ((this.max.y - this.min.y) \div 2)))

HitboxGroup_getCenter(this) == RectangleHitbox_getCenter(HitboxGroup_toRectangle(this))

PolygonHitbox_getCenter(this) == RectangleHitbox_getCenter(PolygonHitbox_toRectangle(this))

getCenter(this) ==
    CASE this.type = "Circle" -> CircleHitbox_getCenter(this)
      [] this.type = "Rect" -> RectangleHitbox_getCenter(this)
      [] this.type = "Group" -> HitboxGroup_getCenter(this)
      [] this.type = "Polygon" -> PolygonHitbox_getCenter(this)

\* --------------------------------------------------------- collidesWith
RECURSIVE collidesWith(_, _)

CircleHitbox_collidesWith(this, that) ==
    CASE that.type = "Circle" ->
           Bool(circleCollision(that.position, that.radius, this.position, this.radius))
      [] that.type = "Rect" ->
           Bool(rectangleCollision(that.min, that.max, this.position, this.radius))
      [] that.type = "Group" -> collidesWith(that, this)
      [] that.type = "Polygon" -> collidesWith(that, CircleHitbox_toRectangle(this))

RectangleHitbox_collidesWith(this, that) ==
    CASE that.type = "Circle" ->
           Bool(rectangleCollision(this.min, this.max, that.position, that.radius))
      [] that.type = "Rect" ->
           Bool(rectRectCollision(that.min, that.max, this.min, this.max))
      [] that.type \in {"Group", "Polygon"} -> collidesWith(that, this)

RECURSIVE SomeCollides(_, _)
\* Array.prototype.some over the remaining members: stops at the first
\* member that collides, and an exception of a member's call propagates.
SomeCollides(hitboxes, that) ==
    IF hitboxes = <<>> THEN Bool(FALSE)
    ELSE LET r == collidesWith(Head(hitboxes), that)
         IN  IF r.kind = "throw" \/ r.value THEN r ELSE SomeCollides(Tail(hitboxes), that)

HitboxGroup_collidesWith(this, that) == SomeCollides(this.hitboxes, that)

PolygonHitbox_collidesWith(this, that) ==
    IF that.type = "Rect"
    THEN LET count == Len(this.points)
             next(i) == IF i = count THEN 1 ELSE i + 1
         IN  Bool(\/ PolygonHitbox_isPointInside(this, that.min)
                  \/ PolygonHitbox_isPointInside(this, that.max)
                  \/ \E i \in 1..count :
                        \/ RectangleHitbox_isPointInside(that, this.points[i])
                        \/ lineIntersectsRect2(this.points[next(i)], this.points[i],
                                               that.min, that.max))
    ELSE throwUnknownSubclassError(this, that)

collidesWith(this, that) ==
    CASE this.type = "Circle" -> CircleHitbox_collidesWith(this, that)
      [] this.type = "Rect" -> RectangleHitbox_collidesWith(this, that)
      [] this.type = "Group" -> HitboxGroup_collidesWith(this, that)
      [] this.type = "Polygon" -> PolygonHitbox_collidesWith(this, that)

\* ----------------------------------------------------------- distanceTo
CircleHitbox_distanceTo(this, that) ==
    CASE that.type = "Circle" ->
           Rec(distanceToCircle(that.position, that.radius, this.position, this.radius))
      [] that.type = "Rect" ->
           Rec(distanceToRectangle(that.min, that.max, this.position, this.radius))
      [] OTHER -> throwUnknownSubclassError(this, that)

RectangleHitbox_distanceTo(this, that) ==
    CASE that.type = "Circle" ->
           Rec(distanceToRectangle(this.min, this.max, that.position, that.radius))
      [] that.type = "Rect" ->
           Rec(rectangleDistanceToRectangle(that.min, that.max, this.min, this.max))
      [] OTHER -> throwUnknownSubclassError(this, that)

\* newRecord of one turn of the loop of HitboxGroup.distanceTo.
GroupMemberRecord(hitbox, that) ==
    IF hitbox.type = "Circle"
    THEN CASE that.type = "Circle" ->
                Rec(distanceToCircle(that.position, that.radius, hitbox.position, hitbox.radius))
           [] that.type = "Rect" ->
                Rec(distanceToRectangle(that.min, that.max, hitbox.position, hitbox.radius))
           [] OTHER -> Undef
    ELSE CASE that.type = "Circle" ->
                Rec(distanceToRectangle(hitbox.min, hitbox.max, that.position, that.radius))
           [] that.type = "Rect" ->
                Rec(rectangleDistanceToRectangle(that.min, that.max, hitbox.min, hitbox.max))
           [] OTHER -> Undef

RECURSIVE GroupDistanceLoop_lastWins(_, _, _, _)
\* The loop with <= for <: of the members at the least distance, the last
\* one's record is kept.
GroupDistanceLoop_lastWins(hitboxes, that, distance, record) ==
    IF hitboxes = <<>> THEN record
    ELSE LET newRecord == GroupMemberRecord(Head(hitboxes), that)
         IN  IF newRecord.kind = "undefined" THEN TypeError
             ELSE IF newRecord.kind = "inexact" THEN NotModelled
             ELSE IF newRecord.distance <= distance
                  THEN GroupDistanceLoop_lastWins(Tail(hitboxes), that,
                                                  newRecord.distance, newRecord)
                  ELSE GroupDistanceLoop_lastWins(Tail(hitboxes), that, distance, record)

RECURSIVE GroupDistanceLoop(_, _, _, _)
\* The loop over the remaining members, with the locals distance and record.
GroupDistanceLoop(hitboxes, that, distance, record) ==
    IF hitboxes = <<>> THEN record
    ELSE LET newRecord == GroupMemberRecord(Head(hitboxes), that)
         IN  IF newRecord.kind = "undefined" THEN TypeError
             ELSE IF newRecord.kind = "inexact" THEN NotModelled
             ELSE IF newRecord.distance < distance
                  THEN GroupDistanceLoop(Tail(hitboxes), that, newRecord.distance, newRecord)
                  ELSE GroupDistanceLoop(Tail(hitboxes), that, distance, record)

HitboxGroup_distanceTo(this, that) ==
    GroupDistanceLoop(this.hitboxes, that, MAX_VALUE, Undef)

\* A distanceTo of a polygon that answers for the polygon's bounds.
PolygonHitbox_distanceTo_bounds(this, that) ==
    RectangleHitbox_distanceTo(PolygonHitbox_toRectangle(this), that)

PolygonHitbox_distanceTo(this, that) == throwUnknownSubclassError(this, that)

distanceTo(this, that) ==
    CASE this.type = "Circle" -> CircleHitbox_distanceTo(this, that)
      [] this.type = "Rect" -> RectangleHitbox_distanceTo(this, that)
      [] this.type = "Group" -> HitboxGroup_distanceTo(this, that)
      [] this.type = "Polygon" -> PolygonHitbox_distanceTo(this, that)

\* -------------------------------------------------------- intersectsLine
CircleHitbox_intersectsLine(this, a, b) ==
    Isect(lineIntersectsCircle(a, b, this.position, this.radius))

RectangleHitbox_intersectsLine(this, a, b) ==
    Isect(lineIntersectsRect(a, b, this.min, this.max))

PrimIntersectsLine(hitbox, a, b) ==
    IF hitbox.type = "Circle" THEN CircleHitbox_intersectsLine(hitbox, a, b)
    ELSE RectangleHitbox_intersectsLine(hitbox, a, b)

\* The members' intersections in member order, then the one nearest to a
\* (the first of a stable sort by squared distance), or null.
HitboxGroup_intersectsLine(this, a, b) ==
    LET each == [i \in DOMAIN this.hitboxes |-> PrimIntersectsLine(this.hitboxes[i], a, b)]
        intersections == SelectSeq(each, LAMBDA r : r.kind = "intersection" /\ r.hit)
    IN  IF \E i \in DOMAIN each : each[i].kind = "inexact" THEN NotModelled
        ELSE [kind |-> "intersection"] @@ Nearest(intersections, a)

\* throw new Error("Operation not supported"): the message names no type.
PolygonHitbox_intersectsLine(this, a, b) ==
    [kind |-> "throw", error |-> "Operation not supported"]

intersectsLine(this, a, b) ==
    CASE this.type = "Circle" -> CircleHitbox_intersectsLine(this, a, b)
      [] this.type = "Rect" -> RectangleHitbox_intersectsLine(this, a, b)
      [] this.type = "Group" -> HitboxGroup_intersectsLine(this, a, b)
      [] this.type = "Polygon" -> PolygonHitbox_intersectsLine(this, a, b)

\* ---------------------------------------------------------- randomPoint
\* The integer points of the rectangle between p and q.
Lattice(p, q) ==
    {v(x, y) : x \in Min2(p.x, q.x)..Max2(p.x, q.x), y \in Min2(p.y, q.y)..Max2(p.y, q.y)}

\* The points randomPointInsideCircle can return.
CircleHitbox_randomPoint(this) ==
    LET r == Abs(this.radius)
    IN  {p \in Lattice(vSub(this.position, v(r, r)), vAdd(this.position, v(r, r))) :
            distanceSquared(p, this.position) <= r * r}

\* The points randomFloat can return on each axis.
RectangleHitbox_randomPoint(this) == Lattice(this.min, this.max)

PrimRandomPoint(hitbox) ==
    IF hitbox.type = "Circle" THEN CircleHitbox_randomPoint(hitbox)
    ELSE RectangleHitbox_randomPoint(hitbox)

\* pickRandomInArray(this.hitboxes).randomPoint()
HitboxGroup_randomPoint(this) ==
    UNION {PrimRandomPoint(this.hitboxes[i]) : i \in DOMAIN this.hitboxes}

\* The samples of the bounding rectangle that end the do-while loop.
PolygonHitbox_randomPoint(this) ==
    {point \in RectangleHitbox_randomPoint(PolygonHitbox_toRectangle(this)) :
        PolygonHitbox_isPointInside(this, point)}

\* The samples of the bounding rectangle that keep the loop going.
PolygonHitbox_randomPoint_rejected(this) ==
    {point \in RectangleHitbox_randomPoint(PolygonHitbox_toRectangle(this)) :
        ~PolygonHitbox_isPointInside(this, point)}

randomPoint(this) ==
    CASE this.type = "Circle" -> CircleHitbox_randomPoint(this)
      [] this.type = "Rect" -> RectangleHitbox_randomPoint(this)
      [] this.type = "Group" -> HitboxGroup_randomPoint(this)
      [] this.type = "Polygon" -> PolygonHitbox_randomPoint(this)

\* ------------------------------------------------------ toJSON, fromJSON
CircleHitbox_toJSON(this) ==
    [type |-> this.type, radius |-> this.radius, position |-> vClone(this.position)]

RectangleHitbox_toJSON(this) ==
    [type |-> this.type, min |-> vClone(this.min), max |-> vClone(this.max)]

PrimToJSON(hitbox) ==
    IF hitbox.type = "Circle" THEN CircleHitbox_toJSON(hitbox)
    ELSE RectangleHitbox_toJSON(hitbox)

\* A toJSON of a group that lists the members last to first.
HitboxGroup_toJSON_lastFirst(this) ==
    [type |-> "Group",
     hitboxes |-> [i \in DOMAIN this.hitboxes |->
                      PrimToJSON(this.hitboxes[Len(this.hitboxes) + 1 - i])]]

HitboxGroup_toJSON(this) ==
    [type |-> "Group",
     hitboxes |-> [i \in DOMAIN this.hitboxes |-> PrimToJSON(this.hitboxes[i])]]

PolygonHitbox_toJSON(this) ==
    [type |-> this.type, points |-> [i \in DOMAIN this.points |-> vClone(this.points[i])]]

toJSON(this) ==
    CASE this.type = "Circle" -> CircleHitbox_toJSON(this)
      [] this.type = "Rect" -> RectangleHitbox_toJSON(this)
      [] this.type = "Group" -> HitboxGroup_toJSON(this)
      [] this.type = "Polygon" -> PolygonHitbox_toJSON(this)

\* BaseHitbox.fromJSON on a record that is not a group: the switch has no
\* default, so an unlisted type falls through and the call returns undefined.
FromJSONPrim(m, data) ==
    CASE data.type = "Circle" ->
           LET n == NewCircle(m, data.radius, data.position) IN [mem |-> n.mem, id |-> n.id]
      [] data.type = "Rect" ->
           LET n == NewRect(m, data.min, data.max) IN [mem |-> n.mem, id |-> n.id]
      [] data.type = "Polygon" ->
           LET ar == NewArray(m, data.points)
               n == NewPolygon(ar.mem, ar.arr)
           IN  [mem |-> n.mem, id |-> n.id]
      [] OTHER -> [mem |-> m, id |-> 0]

RECURSIVE FromJSONMembers(_, _)
\* data.hitboxes.map(d => BaseHitbox.fromJSON(d)) over the remaining records.
FromJSONMembers(m, datas) ==
    IF datas = <<>> THEN [mem |-> m, ids |-> <<>>]
    ELSE LET first == FromJSONPrim(m, Head(datas))
             rest == FromJSONMembers(first.mem, Tail(datas))
         IN  [mem |-> rest.mem, ids |-> <<first.id>> \o rest.ids]

\* BaseHitbox.fromJSON: .id is the object returned, 0 for undefined.
fromJSON(m, data) ==
    IF data.type = "Group"
    THEN LET ms == FromJSONMembers(m, data.hitboxes)
             n == NewGroup(ms.mem, ms.ids)
         IN  [mem |-> n.mem, id |-> n.id]
    ELSE FromJSONPrim(m, data)

\* ---------------------------------------------------------------- clone
CircleHitbox_clone(m, this) ==
    NewCircle(m, m.heap[this].radius, vClone(m.heap[this].position))

RectangleHitbox_clone(m, this) ==
    NewRect(m, vClone(m.heap[this].min), vClone(m.heap[this].max))

PrimClone(m, this) ==
    IF m.heap[this].type = "Circle" THEN CircleHitbox_clone(m, this)
    ELSE RectangleHitbox_clone(m, this)

RECURSIVE CloneMembers(_, _)
\* this.hitboxes.map(hitbox => hitbox.clone()) over the remaining members.
CloneMembers(m, ids) ==
    IF ids = <<>> THEN [mem |-> m, ids |-> <<>>]
    ELSE LET first == PrimClone(m, Head(ids))
             rest == CloneMembers(first.mem, Tail(ids))
         IN  [mem |-> rest.mem, ids |-> <<first.id>> \o rest.ids]

HitboxGroup_clone(m, this) ==
    LET ms == CloneMembers(m, m.heap[this].hitboxes) IN NewGroup(ms.mem, ms.ids)

\* new PolygonHitbox(this.points): the clone refers to the same array.
PolygonHitbox_clone(m, this) == NewPolygon(m, m.heap[this].points)

clone(m, this) ==
    CASE m.heap[this].type = "Circle" -> CircleHitbox_clone(m, this)
      [] m.heap[this].type = "Rect" -> RectangleHitbox_clone(m, this)
      [] m.heap[this].type = "Group" -> HitboxGroup_clone(m, this)
      [] m.heap[this].type = "Polygon" -> PolygonHitbox_clone(m, this)

\* ---------------------------------------------- toRectangle (as objects)
\* Rectangle returns itself; the other classes return a new rectangle.
\* A toRectangle that accumulates a group's bounds in the corners of the
\* rectangle its first member returned, which for a rectangle is the member.
toRectangle_sharedCorners(m, this) ==
    IF m.heap[this].type = "Rect" THEN [mem |-> m, id |-> this]
    ELSE LET r == toRectangleVal(Deref(m, this))
             first == IF m.heap[this].type = "Group" /\ Len(m.heap[this].hitboxes) > 0
                      THEN m.heap[this].hitboxes[1] ELSE 0
             m1 == IF HeapAt(m, first).type = "Rect"
                   THEN [m EXCEPT !.heap[first].min = r.min, !.heap[first].max = r.max]
                   ELSE m
         IN  NewRect(m1, r.min, r.max)

toRectangle(m, this) ==
    IF m.heap[this].type = "Rect" THEN [mem |-> m, id |-> this]
    ELSE LET r == toRectangleVal(Deref(m, this)) IN NewRect(m, r.min, r.max)

\* ------------------------------------------------------------ transform
\* A transform of a circle that scales the radius and leaves the centre
\* where it is.
CircleHitbox_transform_unmoved(m, this, position, scale, orientation) ==
    NewCircle(m, m.heap[this].radius * scale, m.heap[this].position)

CircleHitbox_transform(m, this, position, scale, orientation) ==
    NewCircle(m, m.heap[this].radius * scale,
              addAdjust(position, m.heap[this].position, orientation))

RectangleHitbox_transform(m, this, position, scale, orientation) ==
    LET rect == transformRectangle(position, m.heap[this].min, m.heap[this].max,
                                   scale, orientation)
    IN  NewRect(m, rect.min, rect.max)

PrimTransform(m, this, position, scale, orientation) ==
    IF m.heap[this].type = "Circle"
    THEN CircleHitbox_transform(m, this, position, scale, orientation)
    ELSE RectangleHitbox_transform(m, this, position, scale, orientation)

RECURSIVE TransformMembers(_, _, _, _, _)
\* this.hitboxes.map(hitbox => hitbox.transform(...)) over the remaining members.
TransformMembers(m, ids, position, scale, orientation) ==
    IF ids = <<>> THEN [mem |-> m, ids |-> <<>>]
    ELSE LET first == PrimTransform(m, Head(ids), position, scale, orientation)
             rest == TransformMembers(first.mem, Tail(ids), position, scale, orientation)
         IN  [mem |-> rest.mem, ids |-> <<first.id>> \o rest.ids]

\* this.position = position, then a new group of the transformed members.
HitboxGroup_transform(m, this, position, scale, orientation) ==
    LET m1 == [m EXCEPT !.heap[this].position = position]
        ms == TransformMembers(m1, m1.heap[this].hitboxes, position, scale, orientation)
    IN  NewGroup(ms.mem, ms.ids)

\* A transform of a polygon that writes the new points into the receiver's
\* array and hands that array to the new polygon.
PolygonHitbox_transform_inPlace(m, this, position, scale, orientation) ==
    LET points == m.arrays[m.heap[this].points]
        m1 == [m EXCEPT !.arrays[m.heap[this].points] =
                  [i \in DOMAIN points |->
                      vMul(addAdjust(position, points[i], orientation), scale)]]
    IN  NewPolygon(m1, m.heap[this].points)

PolygonHitbox_transform(m, this, position, scale, orientation) ==
    LET points == m.arrays[m.heap[this].points]
        ar == NewArray(m, [i \in DOMAIN points |->
                              vMul(addAdjust(position, points[i], orientation), scale)])
    IN  NewPolygon(ar.mem, ar.arr)

transform(m, this, position, scale, orientation) ==
    CASE m.heap[this].type = "Circle" -> CircleHitbox_transform(m, this, position, scale, orientation)
      [] m.heap[this].type = "Rect" -> RectangleHitbox_transform(m, this, position, scale, orientation)
      [] m.heap[this].type = "Group" -> HitboxGroup_transform(m, this, position, scale, orientation)
      [] m.heap[this].type = "Polygon" -> PolygonHitbox_transform(m, this, position, scale, orientation)

\* ---------------------------------------------------------------- scale
\* Each operator returns the memory after the call, and .exact.
CircleHitbox_scale(m, this, scale) ==
    [mem |-> [m EXCEPT !.heap[this].radius = @ * scale], exact |-> TRUE]

\* (n - center) * scale + center with center = center2 / 2, doubled.
AboutCenter2(n, center2, scale) == (2 * n - center2) * scale + center2

\* A scale of a rectangle about the origin, like the polygon's.
RectangleHitbox_scale_aboutOrigin(m, this, scale) ==
    [mem |-> [m EXCEPT !.heap[this].min = vMul(@, scale), !.heap[this].max = vMul(@, scale)],
     exact |-> TRUE]

RectangleHitbox_scale(m, this, scale) ==
    LET min == m.heap[this].min
        max == m.heap[this].max
        centerX2 == min.x + max.x
        centerY2 == min.y + max.y
        newMin2 == v(AboutCenter2(min.x, centerX2, scale), AboutCenter2(min.y, centerY2, scale))
        newMax2 == v(AboutCenter2(max.x, centerX2, scale), AboutCenter2(max.y, centerY2, scale))
        Half(p) == v(p.x \div 2, p.y \div 2)
    IN  IF \E n \in {newMin2.x, newMin2.y, newMax2.x, newMax2.y} : n % 2 # 0
        THEN [mem |-> m, exact |-> FALSE]
        ELSE [mem |-> [m EXCEPT !.heap[this].min = Half(newMin2),
                                !.heap[this].max = Half(newMax2)],
              exact |-> TRUE]

PrimScale(m, this, scale) ==
    IF m.heap[this].type = "Circle" THEN CircleHitbox_scale(m, this, scale)
    ELSE RectangleHitbox_scale(m, this, scale)

RECURSIVE ScaleMembers(_, _, _)
\* for (const hitbox of this.hitboxes) hitbox.scale(scale)
ScaleMembers(m, ids, scale) ==
    IF ids = <<>> THEN [mem |-> m, exact |-> TRUE]
    ELSE LET first == PrimScale(m, Head(ids), scale)
             rest == ScaleMembers(first.mem, Tail(ids), scale)
         IN  [mem |-> rest.mem, exact |-> first.exact /\ rest.exact]

HitboxGroup_scale(m, this, scale) == ScaleMembers(m, m.heap[this].hitboxes, scale)

\* this.points[i] = vMul(this.points[i], scale): the array is written in place.
PolygonHitbox_scale(m, this, scale) ==
    LET arr == m.heap[this].points
    IN  [mem |-> [m EXCEPT !.arrays[arr] = [i \in DOMAIN @ |-> vMul(@[i], scale)]],
         exact |-> TRUE]

scale(m, this, factor) ==
    CASE m.heap[this].type = "Circle" -> CircleHitbox_scale(m, this, factor)
      [] m.heap[this].type = "Rect" -> RectangleHitbox_scale(m, this, factor)
      [] m.heap[this].type = "Group" -> HitboxGroup_scale(m, this, factor)
      [] m.heap[this].type = "Polygon" -> PolygonHitbox_scale(m, this, factor)

\* ----------------------------------------------------- resolveCollision
\* Each operator returns the memory after the call and .ret: Void, an
\* exception, or NotModelled.
RECURSIVE resolveCollision(_, _, _)

RECURSIVE ResolveLoop_lastFirst(_, _, _)
\* The loop taken from the last member to the first.
ResolveLoop_lastFirst(m, this, ids) ==
    IF ids = <<>> THEN [mem |-> m, ret |-> Void]
    ELSE LET last == ids[Len(ids)]
             hit == collidesWith(m.heap[this], m.heap[last]).value
             r == IF hit THEN resolveCollision(m, this, last) ELSE [mem |-> m, ret |-> Void]
         IN  IF r.ret.kind # "void" THEN r
             ELSE ResolveLoop_lastFirst(r.mem, this, SubSeq(ids, 1, Len(ids) - 1))

RECURSIVE ResolveLoop(_, _, _)
\* for (const hitbox of that.hitboxes)
\*     if (this.collidesWith(hitbox)) this.resolveCollision(hitbox)
ResolveLoop(m, this, ids) ==
    IF ids = <<>> THEN [mem |-> m, ret |-> Void]
    ELSE LET hit == collidesWith(m.heap[this], m.heap[Head(ids)]).value
             r == IF hit THEN resolveCollision(m, this, Head(ids)) ELSE [mem |-> m, ret |-> Void]
         IN  IF r.ret.kind # "void" THEN r ELSE ResolveLoop(r.mem, this, Tail(ids))

CircleHitbox_resolveCollision(m, this, that) ==
    LET self == m.heap[this]
        other == m.heap[that]
        Move(collision) ==
            IF ~collision.exact THEN [mem |-> m, ret |-> NotModelled]
            ELSE IF ~collision.hit THEN [mem |-> m, ret |-> Void]
            ELSE [mem |-> [m EXCEPT !.heap[this].position =
                                      vSub(@, vMul(collision.dir, collision.pen))],
                  ret |-> Void]
    IN  CASE other.type = "Circle" ->
               Move(circleCircleIntersection(self.position, self.radius,
                                             other.position, other.radius))
          [] other.type = "Rect" ->
               Move(rectCircleIntersection(other.min, other.max, self.position, self.radius))
          [] other.type = "Group" -> ResolveLoop(m, this, other.hitboxes)
          [] OTHER -> [mem |-> m, ret |-> throwUnknownSubclassError(self, other)]

RectangleHitbox_resolveCollision(m, this, that) ==
    LET self == m.heap[this]
        other == m.heap[that]
        Move(collision) ==
            IF ~collision.exact THEN [mem |-> m, ret |-> NotModelled]
            ELSE IF ~collision.hit THEN [mem |-> m, ret |-> Void]
            ELSE LET rect == RectangleHitbox_transform(
                                 m, this, vMul(collision.dir, collision.pen), 1, 0)
                 IN  [mem |-> [rect.mem EXCEPT !.heap[this].min = rect.mem.heap[rect.id].min,
                                               !.heap[this].max = rect.mem.heap[rect.id].max],
                      ret |-> Void]
    IN  CASE other.type = "Circle" ->
               Move(rectCircleIntersection(self.min, self.max, other.position, other.radius))
          [] other.type = "Rect" ->
               Move(rectRectIntersection(self.min, self.max, other.min, other.max))
          [] other.type = "Group" -> ResolveLoop(m, this, other.hitboxes)
          [] OTHER -> [mem |-> m, ret |-> throwUnknownSubclassError(self, other)]

\* The two groups call each other's resolveCollision without end: the call
\* stack overflows.
StackOverflow == [kind |-> "throw", error |-> "RangeError"]

\* that.resolveCollision(this)
HitboxGroup_resolveCollision(m, this, that) ==
    IF m.heap[that].type = "Group" THEN [mem |-> m, ret |-> StackOverflow]
    ELSE resolveCollision(m, that, this)

PolygonHitbox_resolveCollision(m, this, that) ==
    [mem |-> m, ret |-> throwUnknownSubclassError(m.heap[this], m.heap[that])]

resolveCollision(m, this, that) ==
    CASE m.heap[this].type = "Circle" -> CircleHitbox_resolveCollision(m, this, that)
      [] m.heap[this].type = "Rect" -> RectangleHitbox_resolveCollision(m, this, that)
      [] m.heap[this].type = "Group" -> HitboxGroup_resolveCollision(m, this, that)
      [] m.heap[this].type = "Polygon" -> PolygonHitbox_resolveCollision(m, this, that)

\* ------------------------------------------------------------ the client
Circle(radius, position) == [type |-> "Circle", position |-> position, radius |-> radius]

Group(hitboxes) == [type |-> "Group", hitboxes |-> hitboxes]

Polygon(points) == [type |-> "Polygon", points |-> points]

\* The shapes the client constructs for objA.
ShapesA ==
    {Circle(1, v(0, 0)), Circle(2, v(1, 2)),
     RectVal(v(0, 0), v(2, 2)), RectVal(v(-3, -4), v(-1, -2)),
     RectVal(v(0, 1), v(2, 2)),
     Group(<<Circle(1, v(0, 0)), RectVal(v(1, -1), v(3, 1))>>),
     Group(<<RectVal(v(-4, -4), v(-2, -2)), Circle(1, v(-3, -2))>>),
     Polygon(<<v(0, 0), v(4, 0), v(4, 4), v(0, 4)>>),
     Polygon(<<v(-4, -4), v(-1, -4), v(-1, -1)>>)}

\* The shapes the client constructs for objC.
ShapesC ==
    {Circle(2, v(1, 0)), RectVal(v(1, 1), v(3, 3)),
     Group(<<Circle(1, v(1, 0)), RectVal(v(0, 1), v(2, 3))>>),
     Polygon(<<v(1, 1), v(3, 1), v(2, 3)>>)}

Factors == {-1, 0, 2}

Positions == {v(2, -1)}

Scales == {1, 2}

Orientations == {0, 1, 2, 3}

Points == {v(0, 0), v(1, 0), v(1, 1), v(2, 2), v(-2, -3), v(5, 5)}

Segments == {<<v(-5, 0), v(5, 0)>>, <<v(1, 5), v(1, -5)>>, <<v(5, 2), v(-5, 2)>>}

\* Records a client can hand to fromJSON besides those toJSON made: a
\* well-formed one, one with a type outside HitboxType, and a group that
\* holds such a record.
CraftedJson ==
    {[type |-> "Circle", radius |-> 1, position |-> v(1, 1)],
     [type |-> "Capsule", radius |-> 1, position |-> v(1, 1)],
     [type |-> "Group",
      hitboxes |-> <<[type |-> "Rect", min |-> v(0, 0), max |-> v(1, 1)],
                     [type |-> "Capsule", radius |-> 1, position |-> v(1, 1)]>>]}

\* No call is in the loop of PolygonHitbox.randomPoint.
NoLoop == [on |-> FALSE]

Init ==
    \E va \in ShapesA, vc \in ShapesC :
        LET na == NewShape(EmptyMem, va)
            nc == NewShape(na.mem, vc)
        IN  /\ mem = nc.mem
            /\ objA = na.id
            /\ objC = nc.id
            /\ call = [op |-> "new"]
            /\ ret = Void
            /\ pre = [mem |-> nc.mem, c |-> nc.id]
            /\ nops = 0
            /\ origin = "new"
            /\ loop = NoLoop

\* The end of every call: the result is recorded, and what neither the
\* client's variables nor the result refer to is collected.
Return(newMem, newC, newCall, newRet) ==
    /\ nops < MaxOps
    /\ newRet.kind # "inexact"
    /\ mem' = Collect(newMem, {objA, newC} \cup (IF newRet.kind = "object" THEN {newRet.id} ELSE {}))
    /\ objC' = newC
    /\ call' = newCall
    /\ ret' = newRet
    /\ pre' = [mem |-> mem, c |-> objC]
    /\ nops' = nops + 1
    /\ origin' = IF newC # objC THEN newCall.op ELSE origin
    /\ loop' = NoLoop
    /\ UNCHANGED objA

\* A call made by the client, from its start to its end: the client makes
\* no call while one is running.
Step(newMem, newC, newCall, newRet) ==
    /\ ~loop.on
    /\ Return(newMem, newC, newCall, newRet)

\* The client's hitboxes.
Roots == {objA, objC}

\* The other hitbox of the client.
Other(this) == IF this = objA THEN objC ELSE objA

\* this.clone(); the client keeps objA's clone in objC.
Clone ==
    \E this \in Roots :
        LET r == clone(mem, this)
        IN  Step(r.mem, IF this = objA THEN r.id ELSE objC,
                 [op |-> "clone", this |-> this], Obj(r.id))

\* this.scale(factor)
Scale ==
    \E this \in Roots, factor \in Factors :
        LET r == scale(mem, this, factor)
        IN  Step(r.mem, objC, [op |-> "scale", this |-> this, scale |-> factor],
                 IF r.exact THEN Void ELSE NotModelled)

\* this.transform(position, scale, orientation); the client keeps objA's
\* transform in objC.
Transform ==
    \E this \in Roots, position \in Positions, factor \in Scales, orientation \in Orientations :
        LET r == transform(mem, this, position, factor, orientation)
        IN  Step(r.mem, IF this = objA THEN r.id ELSE objC,
                 [op |-> "transform", this |-> this, position |-> position,
                  scale |-> factor, orientation |-> orientation],
                 Obj(r.id))

\* this.resolveCollision(that)
ResolveCollision ==
    \E this \in Roots :
        LET r == resolveCollision(mem, this, Other(this))
        IN  Step(r.mem, objC,
                 [op |-> "resolveCollision", this |-> this, that |-> Other(this)], r.ret)

\* this.collidesWith(that)
CollidesWith ==
    \E this \in Roots :
        Step(mem, objC, [op |-> "collidesWith", this |-> this, that |-> Other(this)],
             collidesWith(Deref(mem, this), Deref(mem, Other(this))))

\* this.distanceTo(that)
DistanceTo ==
    \E this \in Roots :
        Step(mem, objC, [op |-> "distanceTo", this |-> this, that |-> Other(this)],
             distanceTo(Deref(mem, this), Deref(mem, Other(this))))

\* this.intersectsLine(seg[1], seg[2])
IntersectsLine ==
    \E this \in Roots, seg \in Segments :
        Step(mem, objC, [op |-> "intersectsLine", this |-> this, a |-> seg[1], b |-> seg[2]],
             intersectsLine(Deref(mem, this), seg[1], seg[2]))

\* this.isPointInside(point)
IsPointInside ==
    \E this \in Roots, point \in Points :
        Step(mem, objC, [op |-> "isPointInside", this |-> this, point |-> point],
             Bool(isPointInside(Deref(mem, this), point)))

\* this.toRectangle()
ToRectangle ==
    \E this \in Roots :
        LET r == toRectangle(mem, this)
        IN  Step(r.mem, objC, [op |-> "toRectangle", this |-> this], Obj(r.id))

\* this.getCenter()
GetCenter ==
    \E this \in Roots :
        Step(mem, objC, [op |-> "getCenter", this |-> this], getCenter(Deref(mem, this)))

\* this.randomPoint(): any of the points the random source can produce.
RandomPoint ==
    \E this \in Roots :
        \E point \in randomPoint(Deref(mem, this)) :
            Step(mem, objC, [op |-> "randomPoint", this |-> this], Vec(point))

\* One turn of the loop of PolygonHitbox.randomPoint, the first one of a
\* call included, whose sample is not inside the polygon: the loop goes on.
\* The next turn assigns point before it is read, so the state keeps only
\* that the call is in the loop.
RandomPointReject ==
    \E this \in (IF loop.on THEN {loop.this} ELSE Roots) :
        /\ nops < MaxOps
        /\ mem.heap[this].type = "Polygon"
        /\ PolygonHitbox_randomPoint_rejected(Deref(mem, this)) # {}
        /\ loop' = [on |-> TRUE, this |-> this]
        /\ UNCHANGED <<mem, objA, objC, call, ret, pre, nops, origin>>

\* A later turn of the loop whose sample is inside the polygon: the call
\* returns it.
RandomPointAccept ==
    /\ loop.on
    /\ \E point \in PolygonHitbox_randomPoint(Deref(mem, loop.this)) :
          Return(mem, objC, [op |-> "randomPoint", this |-> loop.this], Vec(point))

\* this.toJSON()
ToJSON ==
    \E this \in Roots :
        Step(mem, objC, [op |-> "toJSON", this |-> this], Json(toJSON(Deref(mem, this))))

\* BaseHitbox.fromJSON(data) on a record of the client's: this is 0.
FromJSON ==
    \E data \in CraftedJson :
        LET r == fromJSON(mem, data)
        IN  Step(r.mem, objC, [op |-> "fromJSON", this |-> 0, data |-> data],
                 IF r.id = 0 THEN Undef ELSE Obj(r.id))

\* BaseHitbox.fromJSON(this.toJSON())
RoundTrip ==
    \E this \in Roots :
        LET data == toJSON(Deref(mem, this))
            r == fromJSON(mem, data)
        IN  Step(r.mem, objC, [op |-> "fromJSON", this |-> this, data |-> data],
                 IF r.id = 0 THEN Undef ELSE Obj(r.id))

Next ==
    \/ Clone
    \/ Scale
    \/ Transform
    \/ ResolveCollision
    \/ CollidesWith
    \/ DistanceTo
    \/ IntersectsLine
    \/ IsPointInside
    \/ ToRectangle
    \/ GetCenter
    \/ RandomPoint
    \/ RandomPointReject
    \/ RandomPointAccept
    \/ ToJSON
    \/ FromJSON
    \/ RoundTrip

Spec == Init /\ [][Next]_vars

\* The sampler is fair: a loop of PolygonHitbox.randomPoint that a sample can
\* end is ended by one.
FairSpec == Spec /\ WF_vars(RandomPointAccept)

\* ------------------------------------------------------------ the claims
\* The receiver and the argument of the last call, before and after it.
ThisBefore == Deref(pre.mem, call.this)

ThisAfter == Deref(mem, call.this)

ThatBefore == Deref(pre.mem, call.that)

ThatAfter == Deref(mem, call.that)

\* The object the last call returned.
Returned == Deref(mem, ret.id)

\* The object was allocated by the last call.
IsNew(id) == id >= pre.mem.nextId /\ id < mem.nextId

\* C1: clone() returns a shape equal in all fields to the original, and
\* the two are independent: scale on the clone leaves every field of the
\* original unchanged, and scale on the original leaves the clone unchanged.
C1_CloneEqualAndIndependent ==
    /\ call.op = "clone" =>
          /\ ret.kind = "object"
          /\ ret.id # call.this
          /\ Returned = ThisBefore
    /\ (call.op = "scale" /\ origin = "clone") =>
          Deref(mem, Other(call.this)) = Deref(pre.mem, Other(call.this))

\* Whether a record handed to fromJSON has a type outside HitboxType, at
\* the top or among the records of a group's list.
KnownTypes == {"Circle", "Rect", "Group", "Polygon"}

HasUnknownType(data) ==
    \/ data.type \notin KnownTypes
    \/ /\ data.type = "Group"
       /\ \E i \in DOMAIN data.hitboxes : data.hitboxes[i].type \notin KnownTypes

\* C2: fromJSON on a record with an unknown type, at the top or nested in a
\* group's list, raises an error and returns no value.
C2_UnknownTypeRaises ==
    (call.op = "fromJSON" /\ HasUnknownType(call.data)) => ret.kind = "throw"

\* C3 as claimed: fromJSON(toJSON(shape)) has the kind and all the fields
\* of shape, a group's position included.
C3_RoundTripAllFields ==
    (call.op = "fromJSON" /\ call.this # 0) =>
        ret.kind = "object" /\ Returned = ThisBefore

\* C3 as amended: fromJSON(toJSON(shape)) has the kind of shape and its
\* fields (circle radius and position, rectangle min and max, group members
\* in order, polygon points in order); a group's position is not encoded,
\* and the decoded group's position is (0, 0).
C3_RoundTrip ==
    (call.op = "fromJSON" /\ call.this # 0) =>
        /\ ret.kind = "object"
        /\ IsNew(ret.id)
        /\ IF ThisBefore.type = "Group"
           THEN /\ Returned.type = "Group"
                /\ Returned.hitboxes = ThisBefore.hitboxes
                /\ Returned.position = v(0, 0)
           ELSE Returned = ThisBefore

\* C3 witness: a group whose position a transform has set is encoded and
\* decoded; a polygon is.
C3_Witness ==
    /\ call.op = "fromJSON" /\ call.this # 0
    /\ ret.kind = "object"
    /\ ThisBefore.type = "Group"
    /\ ThisBefore.position # v(0, 0)
    /\ Len(ThisBefore.hitboxes) = 2

RotateScaleTranslate(p, position, factor, orientation) ==
    vAdd(position, vMul(Rotate(p, orientation), factor))

\* What C5 says transform returns for a circle or a rectangle.
ExpectedPrim(hitbox, position, factor, orientation) ==
    IF hitbox.type = "Circle"
    THEN Circle(hitbox.radius * factor,
                RotateScaleTranslate(hitbox.position, position, factor, orientation))
    ELSE LET p == RotateScaleTranslate(hitbox.min, position, factor, orientation)
             q == RotateScaleTranslate(hitbox.max, position, factor, orientation)
         IN  RectVal(v(Min2(p.x, q.x), Min2(p.y, q.y)), v(Max2(p.x, q.x), Max2(p.y, q.y)))

\* C5: transform maps each point or centre p of the shape to
\* position + rotate(orientation, p) * scale: the position argument is not
\* scaled, and a circle's centre is.
C5_RotateScaleTranslate ==
    call.op = "transform" =>
        CASE ThisBefore.type = "Group" ->
               Returned.hitboxes =
                   [i \in DOMAIN ThisBefore.hitboxes |->
                       ExpectedPrim(ThisBefore.hitboxes[i], call.position,
                                    call.scale, call.orientation)]
          [] ThisBefore.type = "Polygon" ->
               Returned.points =
                   [i \in DOMAIN ThisBefore.points |->
                       RotateScaleTranslate(ThisBefore.points[i], call.position,
                                            call.scale, call.orientation)]
          [] OTHER ->
               Returned = ExpectedPrim(ThisBefore, call.position, call.scale, call.orientation)

\* The last call was one of the three on a polygon receiver.
PolygonUnsupportedCall ==
    /\ call.op \in {"resolveCollision", "distanceTo", "intersectsLine"}
    /\ ThisBefore.type = "Polygon"

\* C6 as claimed: resolveCollision, distanceTo and intersectsLine on a
\* polygon fail with an error that carries the receiver's and the
\* argument's kind.
C6_PolygonErrorsCarryKinds ==
    PolygonUnsupportedCall =>
        /\ ret.kind = "throw"
        /\ ret.error = "UnknownSubclass"
        /\ ret.thisType = "Polygon"
        /\ ret.thatType = ThatBefore.type

\* C6 as amended: the three calls on a polygon always fail and return no
\* value; the error of resolveCollision and of distanceTo carries the
\* receiver's and the argument's kind; intersectsLine, whose arguments are
\* two points, fails with "Operation not supported", which carries no kind.
C6_PolygonUnsupported ==
    PolygonUnsupportedCall =>
        /\ ret.kind = "throw"
        /\ IF call.op = "intersectsLine"
           THEN ret = [kind |-> "throw", error |-> "Operation not supported"]
           ELSE /\ ret.error = "UnknownSubclass"
                /\ ret.thisType = "Polygon"
                /\ ret.thatType = ThatBefore.type

\* C6 witness: intersectsLine was called on a polygon and threw.
C6_Witness ==
    /\ call.op = "intersectsLine"
    /\ ThisBefore.type = "Polygon"
    /\ ret.kind = "throw"

\* C7: collidesWith between a polygon and a circle, in either order, and
\* between two polygons, raises an error and returns no boolean.
C7_PolygonCircleRaises ==
    (/\ call.op = "collidesWith"
     /\ {ThisBefore.type, ThatBefore.type} \in {{"Polygon", "Circle"}, {"Polygon"}})
        => ret.kind = "throw"

\* C8: a resolveCollision that returns leaves every field of its argument
\* (and of the argument's members) as it was.
C8_ArgumentUnchanged ==
    (call.op = "resolveCollision" /\ ret.kind = "void") => ThatAfter = ThatBefore

\* The componentwise extrema of a sequence of points.
MinOf(S) == CHOOSE n \in S : \A k \in S : n <= k

MaxOf(S) == CHOOSE n \in S : \A k \in S : n >= k

\* The tightest rectangle around the rectangles of the sequence.
Tightest(rects) ==
    RectVal(v(MinOf({rects[i].min.x : i \in DOMAIN rects}),
              MinOf({rects[i].min.y : i \in DOMAIN rects})),
            v(MaxOf({rects[i].max.x : i \in DOMAIN rects}),
              MaxOf({rects[i].max.y : i \in DOMAIN rects})))

\* C9: toRectangle of a group is the tightest rectangle around its members'
\* bounding rectangles, and of a polygon the tightest around its points,
\* also for shapes at negative coordinates.
C9_TightestBounds ==
    (call.op = "toRectangle" /\ ThisBefore.type \in {"Group", "Polygon"}) =>
        Returned =
            IF ThisBefore.type = "Group"
            THEN Tightest([i \in DOMAIN ThisBefore.hitboxes |->
                              PrimToRectangle(ThisBefore.hitboxes[i])])
            ELSE Tightest([i \in DOMAIN ThisBefore.points |->
                              RectVal(ThisBefore.points[i], ThisBefore.points[i])])

ReadOnlyOps ==
    {"collidesWith", "distanceTo", "intersectsLine", "isPointInside", "toRectangle",
     "getCenter", "randomPoint", "clone", "toJSON"}

\* C10: a read-only call that returns leaves every field of its receiver
\* and of its argument as it was.
C10_ReadOnlyFrame ==
    (call.op \in ReadOnlyOps /\ ret.kind # "throw") =>
        /\ ThisAfter = ThisBefore
        /\ mem.heap[call.this] = pre.mem.heap[call.this]
        /\ call.op \in {"collidesWith", "distanceTo"} =>
              /\ ThatAfter = ThatBefore
              /\ mem.heap[call.that] = pre.mem.heap[call.that]

\* C10 witness: toRectangle returned the bounds of a group whose first
\* member is a rectangle; collidesWith returned for a group and a polygon.
C10_Witness ==
    /\ call.op = "toRectangle"
    /\ ThisBefore.type = "Group"
    /\ ThisBefore.hitboxes[1].type = "Rect"
    /\ ret.kind = "object"

\* The last call was distanceTo on a group of at least one member with a
\* circle or a rectangle, and it returned a record.
GroupDistanceCall ==
    /\ call.op = "distanceTo"
    /\ ThisBefore.type = "Group"
    /\ Len(ThisBefore.hitboxes) > 0
    /\ ThatBefore.type \in {"Circle", "Rect"}
    /\ ret.kind = "record"

\* The record of member i of the receiver against the argument.
MemberRecord(i) == distanceTo(ThisBefore.hitboxes[i], ThatBefore)

\* C11: distanceTo of a non-empty group and a circle or rectangle returns
\* the record of a member at the least distance over the members, and of
\* the members at that distance the earliest in member order.
C11_FirstMinimumWins ==
    GroupDistanceCall =>
        \E i \in DOMAIN ThisBefore.hitboxes :
            /\ ret = MemberRecord(i)
            /\ \A j \in DOMAIN ThisBefore.hitboxes :
                  /\ MemberRecord(j).distance >= ret.distance
                  /\ j < i => MemberRecord(j).distance > ret.distance

\* C11 witness: two members are at the same least distance with different
\* records, and the earlier one's was returned.
C11_Witness ==
    /\ GroupDistanceCall
    /\ Len(ThisBefore.hitboxes) = 2
    /\ MemberRecord(1).distance = MemberRecord(2).distance
    /\ MemberRecord(1) # MemberRecord(2)
    /\ ret = MemberRecord(1)

\* The point is strictly between the rectangle's sides.
StrictlyInRect(rect, p) ==
    /\ rect.min.x < p.x /\ p.x < rect.max.x
    /\ rect.min.y < p.y /\ p.y < rect.max.y

\* The point is at a distance below the circle's radius from its centre.
StrictlyInCircle(circle, p) ==
    /\ circle.radius > 0
    /\ distanceSquared(p, circle.position) < circle.radius * circle.radius

StrictlyInPrim(hitbox, p) ==
    IF hitbox.type = "Rect" THEN StrictlyInRect(hitbox, p) ELSE StrictlyInCircle(hitbox, p)

\* The point is on a side of the rectangle.
OnRectEdge(rect, p) ==
    /\ rect.min.x <= p.x /\ p.x <= rect.max.x
    /\ rect.min.y <= p.y /\ p.y <= rect.max.y
    /\ ~StrictlyInRect(rect, p)

\* C12: isPointInside excludes the boundary. Of a rectangle it is true iff
\* the point is strictly between the sides, so false on every edge; of a
\* circle it is true iff the distance to the centre is below the radius, so
\* false at distance exactly the radius; of a group it is true iff it is
\* true of some member.
C12_BoundaryExcluded ==
    call.op = "isPointInside" =>
        CASE ThisBefore.type = "Rect" ->
               /\ ret.value = StrictlyInRect(ThisBefore, call.point)
               /\ OnRectEdge(ThisBefore, call.point) => ret.value = FALSE
          [] ThisBefore.type = "Circle" ->
               /\ ret.value = StrictlyInCircle(ThisBefore, call.point)
               /\ distanceSquared(call.point, ThisBefore.position)
                      = ThisBefore.radius * ThisBefore.radius => ret.value = FALSE
          [] ThisBefore.type = "Group" ->
               ret.value = (\E i \in DOMAIN ThisBefore.hitboxes :
                               StrictlyInPrim(ThisBefore.hitboxes[i], call.point))
          [] OTHER -> TRUE

\* C12 witness: isPointInside answered false for a point on an edge of a
\* rectangle of positive width and height, between the two corners.
C12_Witness ==
    /\ call.op = "isPointInside"
    /\ ThisBefore.type = "Rect"
    /\ ThisBefore.min.x < call.point.x /\ call.point.x < ThisBefore.max.x
    /\ call.point.y = ThisBefore.min.y /\ ThisBefore.min.y < ThisBefore.max.y
    /\ ret = Bool(FALSE)

\* The circle or rectangle moved by position.
TranslatedPrim(hitbox, position) ==
    IF hitbox.type = "Circle"
    THEN Circle(hitbox.radius, vAdd(hitbox.position, position))
    ELSE RectVal(vAdd(hitbox.min, position), vAdd(hitbox.max, position))

\* The rectangle has min <= max in both coordinates; a circle always.
WellFormedPrim(hitbox) ==
    hitbox.type = "Rect" => hitbox.min.x <= hitbox.max.x /\ hitbox.min.y <= hitbox.max.y

\* The rectangles of the shape have min <= max.
WellFormed(hitbox) ==
    CASE hitbox.type = "Group" ->
           \A i \in DOMAIN hitbox.hitboxes : WellFormedPrim(hitbox.hitboxes[i])
      [] hitbox.type = "Polygon" -> TRUE
      [] OTHER -> WellFormedPrim(hitbox)

\* C13: transform(position, 1, 0) of a shape whose rectangles have
\* min <= max returns the shape moved by position: a circle of the same
\* radius with the centre moved, a rectangle with both corners moved (so of
\* the same width and height), a group of the members moved, in the same
\* number and order, a polygon of the points moved, in the same number and
\* order.
C13_PureTranslation ==
    (/\ call.op = "transform"
     /\ call.scale = 1
     /\ call.orientation = 0
     /\ WellFormed(ThisBefore)) =>
        CASE ThisBefore.type = "Group" ->
               /\ Returned.type = "Group"
               /\ Returned.hitboxes =
                      [i \in DOMAIN ThisBefore.hitboxes |->
                          TranslatedPrim(ThisBefore.hitboxes[i], call.position)]
          [] ThisBefore.type = "Polygon" ->
               /\ Returned.type = "Polygon"
               /\ Returned.points =
                      [i \in DOMAIN ThisBefore.points |->
                          vAdd(ThisBefore.points[i], call.position)]
          [] OTHER -> Returned = TranslatedPrim(ThisBefore, call.position)

\* C13 witness: a group of a circle and a rectangle was moved by a position
\* other than (0, 0).
C13_Witness ==
    /\ call.op = "transform"
    /\ call.scale = 1
    /\ call.orientation = 0
    /\ call.position # v(0, 0)
    /\ ThisBefore.type = "Group"
    /\ WellFormed(ThisBefore)
    /\ {ThisBefore.hitboxes[i].type : i \in DOMAIN ThisBefore.hitboxes} = {"Circle", "Rect"}
    /\ Returned.hitboxes # ThisBefore.hitboxes

\* The circle or rectangle self after self.resolveCollision(member), for a
\* circle or rectangle member: the two alone on a heap.
Displaced(self, member) ==
    LET m1 == NewPrim(EmptyMem, self)
        m2 == NewPrim(m1.mem, member)
    IN  Deref(resolveCollision(m2.mem, m1.id, m2.id).mem, m1.id)

RECURSIVE OnePass(_, _)
\* self after one pass over the members in order: at each member's turn,
\* displaced out of it iff self, where it then is, collides with it.
OnePass(self, hitboxes) ==
    IF hitboxes = <<>> THEN self
    ELSE OnePass(IF collidesWith(self, Head(hitboxes)).value
                 THEN Displaced(self, Head(hitboxes))
                 ELSE self,
                 Tail(hitboxes))

\* The last call was resolveCollision on a circle or rectangle with a
\* group, and it returned.
ResolveWithGroupCall ==
    /\ call.op = "resolveCollision"
    /\ ThisBefore.type \in {"Circle", "Rect"}
    /\ ThatBefore.type = "Group"
    /\ ret.kind = "void"

\* C14: resolveCollision of a circle or rectangle with a group visits the
\* members once each in member order, and at each member's turn displaces
\* the receiver out of it iff the receiver, where it is at that moment,
\* collides with it; there is no second pass, and the group is left as it
\* was.
C14_OnePassInOrder ==
    ResolveWithGroupCall =>
        /\ ThisAfter = OnePass(ThisBefore, ThatBefore.hitboxes)
        /\ ThatAfter = ThatBefore

\* C14 witness: the receiver did not collide with the first member at its
\* turn, was displaced out of the second member at its turn, and the call
\* returned with the receiver colliding with the first member.
C14_Witness ==
    /\ ResolveWithGroupCall
    /\ Len(ThatBefore.hitboxes) = 2
    /\ ~collidesWith(ThisBefore, ThatBefore.hitboxes[1]).value
    /\ collidesWith(ThisBefore, ThatBefore.hitboxes[2]).value
    /\ ThisAfter # ThisBefore
    /\ collidesWith(ThisAfter, ThatAfter.hitboxes[1]).value

\* The last call was randomPoint on a polygon, and it returned.
PolygonRandomPointCall ==
    /\ call.op = "randomPoint"
    /\ ThisBefore.type = "Polygon"
    /\ ret.kind = "vector"

\* The point a polygon's randomPoint returned is inside the polygon and
\* within the polygon's toRectangle().
SampleInsidePolygon ==
    PolygonRandomPointCall =>
        /\ PolygonHitbox_isPointInside(ThisBefore, ret.value)
        /\ LET rect == PolygonHitbox_toRectangle(ThisBefore)
           IN  /\ rect.min.x <= ret.value.x /\ ret.value.x <= rect.max.x
               /\ rect.min.y <= ret.value.y /\ ret.value.y <= rect.max.y

\* A call of randomPoint on a polygon of at least 3 points is in its loop.
Sampling == loop.on /\ Len(Deref(mem, loop.this).points) >= 3

\* C15: randomPoint of a polygon only returns points that are inside the
\* polygon and within its toRectangle(), and with a fair sampler the loop of
\* every polygon of at least 3 points ends.
C15_SamplesInsideAndTerminates ==
    /\ []SampleInsidePolygon
    /\ Sampling ~> ~loop.on

\* new is old with scale(factor) applied, for a circle or a rectangle: the
\* circle's radius is multiplied and its position kept; the rectangle's
\* centre (min + max) / 2 is kept and its width and height are multiplied.
ScaledPrim(old, new, factor) ==
    /\ new.type = old.type
    /\ IF old.type = "Circle"
       THEN /\ new.radius = old.radius * factor
            /\ new.position = old.position
       ELSE /\ vAdd(new.min, new.max) = vAdd(old.min, old.max)
            /\ vSub(new.max, new.min) = vMul(vSub(old.max, old.min), factor)

\* C16: scale(factor) changes the receiver in place: a circle's radius is
\* multiplied by factor and its position kept; a rectangle keeps its centre
\* and has its width and height multiplied by factor; each member of a group
\* is scaled so, about its own centre; every point of a polygon is
\* multiplied by factor, about the origin.
C16_ScaleInPlace ==
    call.op = "scale" =>
        /\ ret.kind = "void"
        /\ CASE ThisBefore.type = "Group" ->
                  /\ ThisAfter.type = "Group"
                  /\ ThisAfter.position = ThisBefore.position
                  /\ mem.heap[call.this].hitboxes = pre.mem.heap[call.this].hitboxes
                  /\ \A i \in DOMAIN ThisBefore.hitboxes :
                        ScaledPrim(ThisBefore.hitboxes[i], ThisAfter.hitboxes[i], call.scale)
             [] ThisBefore.type = "Polygon" ->
                  /\ ThisAfter.type = "Polygon"
                  /\ ThisAfter.points =
                         [i \in DOMAIN ThisBefore.points |->
                             vMul(ThisBefore.points[i], call.scale)]
             [] OTHER -> ScaledPrim(ThisBefore, ThisAfter, call.scale)

\* C16 witness: a group with a rectangle member whose centre is not the
\* origin was scaled by 2, and the member's corners changed.
C16_Witness ==
    /\ call.op = "scale"
    /\ call.scale = 2
    /\ ThisBefore.type = "Group"
    /\ \E i \in DOMAIN ThisBefore.hitboxes :
          /\ ThisBefore.hitboxes[i].type = "Rect"
          /\ vAdd(ThisBefore.hitboxes[i].min, ThisBefore.hitboxes[i].max) # v(0, 0)
          /\ ThisAfter.hitboxes[i].min # ThisBefore.hitboxes[i].min

\* C17: resolveCollision ends for every pair of receiver and argument,
\* either by returning or by raising an unsupported-operation error; a group
\* called with a group does not recurse without bound.
C17_ResolveCollisionEnds ==
    call.op = "resolveCollision" =>
        \/ ret.kind = "void"
        \/ /\ ret.kind = "throw"
           /\ ret.error \in {"UnknownSubclass", "Operation not supported"}

\* Every rectangle object of the memory has min <= max.
RectanglesOrdered(m) ==
    \A id \in DOMAIN m.heap : WellFormedPrim(m.heap[id])

\* C18: min.x <= max.x and min.y <= max.y hold for every rectangle in every
\* reachable state: when they hold of all rectangles before a call of
\* scale, transform, resolveCollision, clone, toRectangle or
\* fromJSON(toJSON(...)), they hold of the receiver and of a returned
\* rectangle after it, for every factor and scale, zero and negative too.
C18_RectangleMinMax ==
    (/\ call.op \in {"scale", "transform", "resolveCollision", "clone",
                     "toRectangle", "fromJSON"}
     /\ call.this # 0
     /\ RectanglesOrdered(pre.mem))
    => /\ WellFormedPrim(ThisAfter)
       /\ ret.kind = "object" => WellFormedPrim(Returned)

====
